---- MODULE Spec2Model ----
(***************************************************************************)
(* Model of the evaluation engine of training/finetune/evaluate.py:        *)
(* parse_json_output (the extraction ladder), compare_coordinates,         *)
(* evaluate_sample, print_results and the evaluation loop of main.         *)
(*                                                                         *)
(* A text is a sequence of lexical tokens.  A token is a record            *)
(* [k |-> kind, v |-> spelling]; the only tokens whose spelling holds a    *)
(* brace character are the two punctuation tokens "{" and "}", so the      *)
(* regular expressions of parse_json_output, which look at brace           *)
(* characters only, are computed on token positions.                       *)
(***************************************************************************)
EXTENDS Integers, Sequences, FiniteSets, TLC

(***************************************************************************)
(* Bounds of the model.                                                    *)
(***************************************************************************)
MaxLen == 4        \* longest raw token sequence given to the extractor
MaxProse == 2      \* longest prose run before / after an embedded document
MaxNest == 1       \* deepest nesting of mappings inside `arguments`
MaxSamples == 2    \* largest batch handed to the evaluation loop
MaxBatch == 3      \* longest list of results handed to print_results alone
MaxLines == 3      \* most lines read from the output of the training command

(***************************************************************************)
(* Tokens.                                                                 *)
(***************************************************************************)
Tok(k, v) == [k |-> k, v |-> v]
LBrace == Tok("punct", "{")
RBrace == Tok("punct", "}")
LBrack == Tok("punct", "[")
RBrack == Tok("punct", "]")
Colon == Tok("punct", ":")
Comma == Tok("punct", ",")
Space == Tok("ws", " ")
StrTok(s) == Tok("str", s)
NumTok(lex) == Tok("num", lex)
LitTok(lex) == Tok("lit", lex)
Word(w) == Tok("word", w)
\* a run of "[" longer than the recursion limit of the interpreter
DeepOpen == Tok("punct", "[[[...")

(***************************************************************************)
(* Python values.  json.loads yields None, bool, int/float, str, list or   *)
(* dict; a dict is a function from its keys to values.                     *)
(***************************************************************************)
None == [t |-> "null"]
JBool(b) == [t |-> "bool", b |-> b]
JNum(n) == [t |-> "num", n |-> n]
JStr(s) == [t |-> "str", s |-> s]
JArr(q) == [t |-> "arr", items |-> q]
JObj(f) == [t |-> "obj", kv |-> f]
EmptyDict == JObj(<<>>)

is_dict(v) == v.t = "obj"

\* the numerals of the model and the number Python reads from each
NumLexemes == {"0", "1", "5", "10", "13", "20"}
NumOf(lex) ==
  CASE lex = "0" -> 0
    [] lex = "1" -> 1
    [] lex = "5" -> 5
    [] lex = "10" -> 10
    [] lex = "13" -> 13
    [] lex = "20" -> 20

\* the outcome of a call: a returned value or a raised exception
Return(v) == [ret |-> v]
Raise(e) == [exc |-> e]
Raised(o) == "exc" \in DOMAIN o

(***************************************************************************)
(* json.loads: a recursive-descent parser of one JSON document.            *)
(* A parse result is [ok, val, pos, exc]: pos is the first token not       *)
(* consumed, exc the exception that ended the parse when ok is FALSE.      *)
(***************************************************************************)
Fail == [ok |-> FALSE, val |-> None, pos |-> 0, exc |-> "JSONDecodeError"]
Done(v, p) == [ok |-> TRUE, val |-> v, pos |-> p, exc |-> ""]
\* the scanner nests one call per open bracket and json.loads does not
\* catch the RecursionError of the interpreter
TooDeep == [ok |-> FALSE, val |-> None, pos |-> 0, exc |-> "RecursionError"]

RECURSIVE SkipWs(_, _)
SkipWs(toks, i) ==
  IF i <= Len(toks) /\ toks[i].k = "ws" THEN SkipWs(toks, i + 1) ELSE i

RECURSIVE ParseValue(_, _), ParseMembers(_, _, _), ParseElements(_, _, _)
ParseValue(toks, i) ==
  IF i > Len(toks) THEN Fail
  ELSE LET tok == toks[i] IN
    CASE tok.k = "str" -> Done(JStr(tok.v), i + 1)
      [] tok.k = "num" -> Done(JNum(NumOf(tok.v)), i + 1)
      [] tok.k = "lit" ->
           Done(IF tok.v = "null" THEN None ELSE JBool(tok.v = "true"), i + 1)
      [] tok = LBrace ->
           LET j == SkipWs(toks, i + 1) IN
             IF j <= Len(toks) /\ toks[j] = RBrace
             THEN Done(EmptyDict, j + 1)
             ELSE ParseMembers(toks, j, <<>>)
      [] tok = LBrack ->
           LET j == SkipWs(toks, i + 1) IN
             IF j <= Len(toks) /\ toks[j] = RBrack
             THEN Done(JArr(<<>>), j + 1)
             ELSE ParseElements(toks, j, <<>>)
      [] tok = DeepOpen -> TooDeep
      [] OTHER -> Fail

\* members of an object from position i on; acc holds the pairs read so far
\* (a repeated key keeps its last value, as in a Python dict)
ParseMembers(toks, i, acc) ==
  IF i > Len(toks) \/ toks[i].k # "str" THEN Fail
  ELSE LET key == toks[i].v
           c == SkipWs(toks, i + 1)
       IN IF c > Len(toks) \/ toks[c] # Colon THEN Fail
          ELSE LET r == ParseValue(toks, SkipWs(toks, c + 1)) IN
            IF ~r.ok THEN r
            ELSE LET acc2 == (key :> r.val) @@ acc
                     e == SkipWs(toks, r.pos)
                 IN IF e > Len(toks) THEN Fail
                    ELSE IF toks[e] = RBrace THEN Done(JObj(acc2), e + 1)
                    ELSE IF toks[e] = Comma
                         THEN ParseMembers(toks, SkipWs(toks, e + 1), acc2)
                    ELSE Fail

ParseElements(toks, i, acc) ==
  LET r == ParseValue(toks, i) IN
    IF ~r.ok THEN r
    ELSE LET acc2 == Append(acc, r.val)
             e == SkipWs(toks, r.pos)
         IN IF e > Len(toks) THEN Fail
            ELSE IF toks[e] = RBrack THEN Done(JArr(acc2), e + 1)
            ELSE IF toks[e] = Comma
                 THEN ParseElements(toks, SkipWs(toks, e + 1), acc2)
            ELSE Fail

\* json.loads(s): the whole of s is one document (whitespace around it is
\* allowed); ok = FALSE stands for the exception exc
json_loads(toks) ==
  LET r == ParseValue(toks, SkipWs(toks, 1)) IN
    IF r.ok /\ SkipWs(toks, r.pos) # Len(toks) + 1 THEN Fail ELSE r

(***************************************************************************)
(* str.strip                                                               *)
(***************************************************************************)
RECURSIVE RStrip(_)
RStrip(toks) ==
  IF Len(toks) > 0 /\ toks[Len(toks)].k = "ws"
  THEN RStrip(SubSeq(toks, 1, Len(toks) - 1)) ELSE toks

strip(toks) ==
  LET r == RStrip(toks) IN SubSeq(r, SkipWs(r, 1), Len(r))

(***************************************************************************)
(* re.findall with the two patterns of parse_json_output.                  *)
(***************************************************************************)
IsBrace(tok) == tok = LBrace \/ tok = RBrace

\* position of the first brace at or after j, 0 if there is none
RECURSIVE NextBrace(_, _)
NextBrace(toks, j) ==
  IF j > Len(toks) THEN 0
  ELSE IF IsBrace(toks[j]) THEN j ELSE NextBrace(toks, j + 1)

\* \{[^{}]*(?:\{[^{}]*\}[^{}]*)*\} attempted after its opening brace: the
\* position of the closing brace of the match, 0 if the attempt fails
\* NestedEnd without the inner group: the pattern \{[^{}]*\}
NestedEnd_flat(toks, j) ==
  LET b == NextBrace(toks, j) IN
    IF b # 0 /\ toks[b] = RBrace THEN b ELSE 0

RECURSIVE NestedEnd(_, _)
NestedEnd(toks, j) ==
  LET b == NextBrace(toks, j) IN
    IF b = 0 THEN 0
    ELSE IF toks[b] = RBrace THEN b
    ELSE LET c == NextBrace(toks, b + 1) IN
           IF c # 0 /\ toks[c] = RBrace THEN NestedEnd(toks, c + 1) ELSE 0

\* \{.*?\} with DOTALL attempted after its opening brace
RECURSIVE SimpleEnd(_, _)
SimpleEnd(toks, j) ==
  IF j > Len(toks) THEN 0
  ELSE IF toks[j] = RBrace THEN j ELSE SimpleEnd(toks, j + 1)

MatchEnd(pattern, toks, i) ==
  IF toks[i] # LBrace THEN 0
  ELSE IF pattern = "nested" THEN NestedEnd(toks, i + 1)
  ELSE SimpleEnd(toks, i + 1)

\* the non-overlapping matches, left to right, scanning from position i
RECURSIVE FindFrom(_, _, _)
FindFrom(pattern, toks, i) ==
  IF i > Len(toks) THEN <<>>
  ELSE LET e == MatchEnd(pattern, toks, i) IN
    IF e = 0 THEN FindFrom(pattern, toks, i + 1)
    ELSE <<SubSeq(toks, i, e)>> \o FindFrom(pattern, toks, e + 1)

re_findall(pattern, toks) == FindFrom(pattern, toks, 1)

json_patterns == <<"nested", "simple">>

(***************************************************************************)
(* parse_json_output                                                       *)
(***************************************************************************)
\* the first candidate of the list that json.loads accepts, None if none;
\* only JSONDecodeError is caught
RECURSIVE FirstParsed(_)
FirstParsed(cands) ==
  IF cands = <<>> THEN None
  ELSE LET r == json_loads(Head(cands)) IN
    IF r.ok THEN r.val
    ELSE IF r.exc # "JSONDecodeError" THEN Raise(r.exc)
    ELSE FirstParsed(Tail(cands))

\* Candidates with the two patterns in the other order: the loose pattern
\* tried before the balanced one
Candidates_loose_first(toks) ==
  re_findall(json_patterns[2], toks) \o re_findall(json_patterns[1], toks)

Candidates(toks) ==
  re_findall(json_patterns[1], toks) \o re_findall(json_patterns[2], toks)

\* parse_json_output falling back to a default record instead of None
parse_json_output_default(text) ==
  LET t == strip(text)
      direct == json_loads(t)
      found == FirstParsed(Candidates(t))
  IN IF direct.ok THEN direct.val
     ELSE IF direct.exc # "JSONDecodeError" THEN Raise(direct.exc)
     ELSE IF found # None THEN found
     ELSE JObj(("tool" :> JStr("unknown")) @@ ("arguments" :> EmptyDict))

\* the value returned, or Raise(e) when an exception leaves the function
parse_json_output(text) ==
  LET t == strip(text)
      direct == json_loads(t)
  IN IF direct.ok THEN direct.val
     ELSE IF direct.exc # "JSONDecodeError" THEN Raise(direct.exc)
     ELSE FirstParsed(Candidates(t))

(***************************************************************************)
(* Python operations on values used by the evaluation code.                *)
(***************************************************************************)
\* bool(v)
truthy(v) ==
  CASE v.t = "null" -> FALSE
    [] v.t = "bool" -> v.b
    [] v.t = "num" -> v.n # 0
    [] v.t = "str" -> v.s # ""
    [] v.t = "arr" -> v.items # <<>>
    [] v.t = "obj" -> DOMAIN v.kv # {}

\* d.get(key, default) of a dict d
dict_get(d, key, default) ==
  IF key \in DOMAIN d.kv THEN d.kv[key] ELSE default

\* a == b: True equals 1 and False equals 0, inside containers as well
RECURSIVE PyNorm(_)
PyNorm(v) ==
  CASE v.t = "bool" -> JNum(IF v.b THEN 1 ELSE 0)
    [] v.t = "arr" -> JArr([i \in DOMAIN v.items |-> PyNorm(v.items[i])])
    [] v.t = "obj" -> JObj([k \in DOMAIN v.kv |-> PyNorm(v.kv[k])])
    [] OTHER -> v

py_eq(a, b) == PyNorm(a) = PyNorm(b)

\* float(v): [ok |-> TRUE, x |-> number], or ok = FALSE for the TypeError
\* (None, list, dict) or ValueError (a string that is no numeral) it raises
to_float(v) ==
  CASE v.t = "num" -> [ok |-> TRUE, x |-> v.n]
    [] v.t = "bool" -> [ok |-> TRUE, x |-> IF v.b THEN 1 ELSE 0]
    [] v.t = "str" /\ v.s \in NumLexemes -> [ok |-> TRUE, x |-> NumOf(v.s)]
    [] OTHER -> [ok |-> FALSE, x |-> 0]

\* the non-negative real whose square is n (3.0 is Root(9))
Root(n) == [root_of |-> n]

(***************************************************************************)
(* compare_coordinates                                                     *)
(***************************************************************************)
\* compare_coordinates defaulting the expected coordinates to 0 as well
compare_coordinates_default(expected, predicted) ==
  IF ~is_dict(expected) \/ ~is_dict(predicted)
  THEN Raise("AttributeError")
  ELSE
    LET expected_args == dict_get(expected, "arguments", EmptyDict)
        predicted_args == dict_get(predicted, "arguments", EmptyDict)
    IN
    IF ~is_dict(expected_args) \/ ~is_dict(predicted_args)
    THEN Raise("AttributeError")
    ELSE
      LET exp_lon == to_float(dict_get(expected_args, "longitude", JNum(0)))
          exp_lat == to_float(dict_get(expected_args, "latitude", JNum(0)))
          pred_lon == to_float(dict_get(predicted_args, "longitude", JNum(0)))
          pred_lat == to_float(dict_get(predicted_args, "latitude", JNum(0)))
      IN
      IF ~exp_lon.ok \/ ~exp_lat.ok \/ ~pred_lon.ok \/ ~pred_lat.ok
      THEN Return(None)
      ELSE Return(Root((exp_lon.x - pred_lon.x) * (exp_lon.x - pred_lon.x)
                       + (exp_lat.x - pred_lat.x) * (exp_lat.x - pred_lat.x)))

compare_coordinates(expected, predicted) ==
  IF ~is_dict(expected) \/ ~is_dict(predicted)
  THEN Raise("AttributeError")                     \* .get of a non-dict
  ELSE
    LET expected_args == dict_get(expected, "arguments", EmptyDict)
        predicted_args == dict_get(predicted, "arguments", EmptyDict)
    IN
    \* `"longitude" in expected_args` raises TypeError on a number, bool or
    \* None; on a list or a string it is a membership / substring test, and
    \* where that test holds expected_args["longitude"] raises TypeError:
    \* each of these ends in the except clause or falls through to None
    IF ~is_dict(expected_args) THEN Return(None)
    ELSE IF ~("longitude" \in DOMAIN expected_args.kv
              /\ "latitude" \in DOMAIN expected_args.kv) THEN Return(None)
    ELSE
      LET exp_lon == to_float(expected_args.kv["longitude"])
          exp_lat == to_float(expected_args.kv["latitude"])
      IN
      IF ~exp_lon.ok \/ ~exp_lat.ok THEN Return(None)
      ELSE IF ~is_dict(predicted_args)
      THEN Raise("AttributeError")                 \* not in the except tuple
      ELSE
        LET pred_lon == to_float(dict_get(predicted_args, "longitude", JNum(0)))
            pred_lat == to_float(dict_get(predicted_args, "latitude", JNum(0)))
        IN
        IF ~pred_lon.ok \/ ~pred_lat.ok THEN Return(None)
        ELSE Return(Root((exp_lon.x - pred_lon.x) * (exp_lon.x - pred_lon.x)
                         + (exp_lat.x - pred_lat.x) * (exp_lat.x - pred_lat.x)))

(***************************************************************************)
(* evaluate_sample                                                         *)
(***************************************************************************)
EvalResult(instruction, expected, predicted, tool_match, json_valid, coord_error, exact_match) ==
  [instruction |-> instruction, expected |-> expected,
   predicted |-> predicted, tool_match |-> tool_match,
   json_valid |-> json_valid, coord_error |-> coord_error,
   exact_match |-> exact_match]

\* evaluate_parsed with json_valid requiring both texts to extract
evaluate_parsed_both_valid(expected_str, predicted_str, instruction, expected_json, predicted_json) ==
  LET json_valid == expected_json # None /\ predicted_json # None
      both == truthy(expected_json) /\ truthy(predicted_json)
      exact_match == strip(expected_str) = strip(predicted_str)
  IN
  IF both /\ (~is_dict(expected_json) \/ ~is_dict(predicted_json))
  THEN Raise("AttributeError")
  ELSE
    LET tool_match ==
          IF both
          THEN py_eq(dict_get(expected_json, "tool", None),
                     dict_get(predicted_json, "tool", None))
          ELSE FALSE
        coord == IF both
                 THEN compare_coordinates(expected_json, predicted_json)
                 ELSE Return(None)
    IN
    IF Raised(coord) THEN coord
    ELSE Return(EvalResult(instruction, expected_str, predicted_str,
                           tool_match, json_valid, coord.ret, exact_match))

\* evaluate_parsed with exact_match comparing the extracted values
evaluate_parsed_semantic(expected_str, predicted_str, instruction, expected_json, predicted_json) ==
  LET json_valid == predicted_json # None
      both == truthy(expected_json) /\ truthy(predicted_json)
      exact_match == py_eq(expected_json, predicted_json)
  IN
  IF both /\ (~is_dict(expected_json) \/ ~is_dict(predicted_json))
  THEN Raise("AttributeError")
  ELSE
    LET tool_match ==
          IF both
          THEN py_eq(dict_get(expected_json, "tool", None),
                     dict_get(predicted_json, "tool", None))
          ELSE FALSE
        coord == IF both
                 THEN compare_coordinates(expected_json, predicted_json)
                 ELSE Return(None)
    IN
    IF Raised(coord) THEN coord
    ELSE Return(EvalResult(instruction, expected_str, predicted_str,
                           tool_match, json_valid, coord.ret, exact_match))

\* lines 199-225 of evaluate_sample: the comparison of the two values the
\* extractor returned for the expected and the predicted text
evaluate_parsed(expected_str, predicted_str, instruction, expected_json, predicted_json) ==
  LET json_valid == predicted_json # None
      both == truthy(expected_json) /\ truthy(predicted_json)
      exact_match == strip(expected_str) = strip(predicted_str)
  IN
  IF both /\ (~is_dict(expected_json) \/ ~is_dict(predicted_json))
  THEN Raise("AttributeError")                     \* .get("tool") of a non-dict
  ELSE
    LET tool_match ==
          IF both
          THEN py_eq(dict_get(expected_json, "tool", None),
                     dict_get(predicted_json, "tool", None))
          ELSE FALSE
        coord == IF both
                 THEN compare_coordinates(expected_json, predicted_json)
                 ELSE Return(None)
    IN
    IF Raised(coord) THEN coord
    ELSE Return(EvalResult(instruction, expected_str, predicted_str,
                           tool_match, json_valid, coord.ret, exact_match))

\* lines 196-197: the two extractions, whose exception is not caught
extractions(expected_json, predicted_json) ==
  IF Raised(expected_json) THEN expected_json
  ELSE IF Raised(predicted_json) THEN predicted_json
  ELSE Return(<<expected_json, predicted_json>>)

evaluate_extracted(expected_str, predicted_str, instruction, both) ==
  IF Raised(both) THEN both
  ELSE evaluate_parsed(expected_str, predicted_str, instruction,
                       both.ret[1], both.ret[2])

evaluate_sample(expected_str, predicted_str, instruction) ==
  evaluate_extracted(expected_str, predicted_str, instruction,
                     extractions(parse_json_output(expected_str),
                                 parse_json_output(predicted_str)))

(***************************************************************************)
(* print_results                                                           *)
(***************************************************************************)
\* sum(1 for r in results if r.<flag>)
RECURSIVE CountIf(_, _)
CountIf(results_, flag) ==
  IF results_ = <<>> THEN 0
  ELSE (IF Head(results_)[flag] THEN 1 ELSE 0) + CountIf(Tail(results_), flag)

\* CoordErrors counting a result without coord_error as an error of 0
RECURSIVE CoordErrors_all(_)
CoordErrors_all(results_) ==
  IF results_ = <<>> THEN <<>>
  ELSE <<IF Head(results_).coord_error # None
         THEN Head(results_).coord_error ELSE [root_of |-> 0]>>
       \o CoordErrors_all(Tail(results_))

\* [r.coord_error for r in results if r.coord_error is not None]
RECURSIVE CoordErrors(_)
CoordErrors(results_) ==
  IF results_ = <<>> THEN <<>>
  ELSE (IF Head(results_).coord_error # None
        THEN <<Head(results_).coord_error>> ELSE <<>>)
       \o CoordErrors(Tail(results_))

\* a / b of two integers, b # 0, kept as the fraction
Ratio(a, b) == [num |-> a, den |-> b]

IsSquare(n) == \E r \in 0..n : r * r = n
ISqrt(n) == CHOOSE r \in 0..n : r * r = n

(***************************************************************************)
(* Python floats.  A float is an IEEE 754 double: zero, or                 *)
(* [e, m] with m its 53 significand bits, most significant (always 1)      *)
(* first, standing for the number m * 2^(e - 52).  Only the non-negative   *)
(* finite doubles occur in sum(coord_errors) / len(coord_errors).          *)
(***************************************************************************)
FZero == [e |-> 0, m |-> <<>>]

Zeros(n) == [i \in 1..n |-> 0]

\* the binary numeral of k, without leading zeros
RECURSIVE IntBits(_)
IntBits(k) == IF k = 0 THEN <<>> ELSE Append(IntBits(k \div 2), k % 2)

\* the binary numeral of k on w digits
Bits(k, w) == Zeros(w - Len(IntBits(k))) \o IntBits(k)

\* x + y of two binary numerals of equal length, computed on the digits
\* lo..hi with the carry carry coming in from below: the digits d of the
\* sum, least significant first, and the carry c going out.  The range is
\* split in two halves: the lower half is added first and its carry goes
\* into the upper half.
AddJoin(low, high) == [d |-> low.d \o high.d, c |-> high.c]

RECURSIVE AddRange(_, _, _, _, _)
AddUpper(x, y, lo, mid, low) ==
  AddJoin(low, AddRange(x, y, lo, mid, low.c))

AddRange(x, y, lo, hi, carry) ==
  IF lo > hi THEN [d |-> <<>>, c |-> carry]
  ELSE IF lo = hi
  THEN [d |-> <<(x[lo] + y[lo] + carry) % 2>>,
        c |-> (x[lo] + y[lo] + carry) \div 2]
  ELSE AddUpper(x, y, lo, (lo + hi) \div 2,
                AddRange(x, y, (lo + hi) \div 2 + 1, hi, carry))

Reverse(q) == [i \in 1..Len(q) |-> q[Len(q) + 1 - i]]

WithCarry(sum) == Reverse(IF sum.c = 1 THEN Append(sum.d, 1) ELSE sum.d)

AddBits(x, y) == WithCarry(AddRange(x, y, 1, Len(x), 0))

\* x without its leading zeros
StripZeros(x) ==
  IF \A i \in 1..Len(x) : x[i] = 0 THEN <<>>
  ELSE SubSeq(x, CHOOSE i \in 1..Len(x) :
                   x[i] = 1 /\ \A j \in 1..(i - 1) : x[j] = 0,
              Len(x))

\* round to nearest, ties to even: the double nearest to S * 2^scale, S a
\* binary numeral without leading zero; sticky tells that the exact number
\* lies strictly above S * 2^scale and below (S + 1) * 2^scale
RoundUp(S, sticky) ==
  /\ Len(S) > 53
  /\ S[54] = 1
  /\ \/ sticky
     \/ S[53] = 1
     \/ \E i \in 55..Len(S) : S[i] = 1

Rounded(S, scale, kept) ==
  IF Len(kept) = 54
  THEN [e |-> scale + Len(S), m |-> SubSeq(kept, 1, 53)]
  ELSE [e |-> scale + Len(S) - 1, m |-> kept]

Nearest(S, scale, sticky) ==
  IF S = <<>> THEN FZero
  ELSE IF Len(S) <= 53
  THEN [e |-> scale + Len(S) - 1, m |-> S \o Zeros(53 - Len(S))]
  ELSE Rounded(S, scale,
               IF RoundUp(S, sticky)
               THEN AddBits(SubSeq(S, 1, 53), Bits(1, 53))
               ELSE SubSeq(S, 1, 53))

\* a double given by its exponent and its significand in four groups of
\* 14, 13, 13 and 13 bits
Float(e, groups) ==
  [e |-> e,
   m |-> Bits(groups[1], 14) \o Bits(groups[2], 13)
         \o Bits(groups[3], 13) \o Bits(groups[4], 13)]

\* float(k) of an int k >= 0
FloatOfInt(k) == Nearest(IntBits(k), 0, FALSE)

\* hi + lo of two doubles, hi.e >= lo.e, neither zero: the exact sum of the
\* two significands brought to the scale of lo, then rounded
FAddOrdered(hi, lo) ==
  Nearest(AddBits(hi.m \o Zeros(hi.e - lo.e), Zeros(hi.e - lo.e) \o lo.m),
          lo.e - 52, FALSE)

\* a + b
FAdd(a, b) ==
  IF a = FZero THEN b
  ELSE IF b = FZero THEN a
  ELSE IF a.e >= b.e THEN FAddOrdered(a, b) ELSE FAddOrdered(b, a)

\* long division of the digits lo..hi of the binary numeral x by k, rem
\* being the remainder left by the digits before lo: the digits q of the
\* quotient and the remainder left.  The range is split in two halves:
\* the upper half is divided first and its remainder goes into the lower.
DivJoin(first, second) == [q |-> first.q \o second.q, rem |-> second.rem]

RECURSIVE LongDiv(_, _, _, _, _)
DivLower(x, k, mid, hi, first) ==
  DivJoin(first, LongDiv(x, k, mid + 1, hi, first.rem))

LongDiv(x, k, lo, hi, rem) ==
  IF lo > hi THEN [q |-> <<>>, rem |-> rem]
  ELSE IF lo = hi
  THEN [q |-> <<(2 * rem + x[lo]) \div k>>, rem |-> (2 * rem + x[lo]) % k]
  ELSE DivLower(x, k, (lo + hi) \div 2, hi,
                LongDiv(x, k, lo, (lo + hi) \div 2, rem))

\* the double nearest to a / k, from the quotient d of the significand of
\* a followed by 8 more digits
FQuotient(a, d) ==
  Nearest(StripZeros(d.q), a.e - 52 - 8, d.rem # 0)

\* a / k of a double a and an int k, 1 <= k < 64
FDivInt(a, k) ==
  IF a = FZero THEN FZero
  ELSE FQuotient(a, LongDiv(a.m \o Zeros(8), k, 1, 53 + 8, 0))

\* n ** 0.5 of the float n: exact for a square, else the double the
\* interpreter gives for the radicands the coordinates of the model produce
FSqrt(n) ==
  IF IsSquare(n) THEN FloatOfInt(ISqrt(n))
  ELSE CASE n = 2 -> Float(0, <<11585, 1945, 5113, 7117>>)
         [] n = 10 -> Float(1, <<12952, 5646, 5842, 6995>>)
         [] n = 500 -> Float(4, <<11448, 5472, 5103, 4562>>)
         [] n = 569 -> Float(4, <<12213, 860, 7517, 452>>)

\* the double a coord_error is
FloatOf(error) == FSqrt(error.root_of)

\* sum(coord_errors): the additions are made left to right, from 0
RECURSIVE FloatSum(_)
FloatSum(errs) ==
  IF errs = <<>> THEN FZero
  ELSE FAdd(FloatSum(SubSeq(errs, 1, Len(errs) - 1)),
            FloatOf(errs[Len(errs)]))

\* sum(coord_errors) / len(coord_errors) if coord_errors else None
AvgCoordError(errs) ==
  IF errs = <<>> THEN None
  ELSE FDivInt(FloatSum(errs), Len(errs))

\* a list or a dict cannot be a dict key
hashable(v) == v.t \notin {"arr", "obj"}

\* tool_stats: keys in insertion order and the counters of each key
NoStats == [keys |-> <<>>, stats |-> <<>>]

\* CountTool counting every sample of a bucket as correct
CountTool_all_correct(acc, r, expected_json) ==
  IF Raised(expected_json) THEN expected_json
  ELSE IF ~truthy(expected_json) THEN Return(acc)
  ELSE IF ~is_dict(expected_json) THEN Raise("AttributeError")
  ELSE
    LET tool == PyNorm(dict_get(expected_json, "tool", JStr("unknown"))) IN
    IF ~hashable(tool) THEN Raise("TypeError")
    ELSE
      LET old == IF tool \in DOMAIN acc.stats THEN acc.stats[tool]
                 ELSE [total |-> 0, correct |-> 0]
          new == [total |-> old.total + 1, correct |-> old.correct + 1]
      IN Return([keys |-> IF tool \in DOMAIN acc.stats THEN acc.keys
                          ELSE Append(acc.keys, tool),
                 stats |-> (tool :> new) @@ acc.stats])

\* one turn of the loop that fills tool_stats: result r, whose expected
\* text the extractor turned into expected_json, counted into acc
CountTool(acc, r, expected_json) ==
  IF Raised(expected_json) THEN expected_json
  ELSE IF ~truthy(expected_json) THEN Return(acc)
  ELSE IF ~is_dict(expected_json) THEN Raise("AttributeError")
  ELSE
    LET tool == PyNorm(dict_get(expected_json, "tool", JStr("unknown"))) IN
    IF ~hashable(tool) THEN Raise("TypeError")
    ELSE
      LET old == IF tool \in DOMAIN acc.stats THEN acc.stats[tool]
                 ELSE [total |-> 0, correct |-> 0]
          new == [total |-> old.total + 1,
                  correct |-> old.correct + (IF r.tool_match THEN 1 ELSE 0)]
      IN Return([keys |-> IF tool \in DOMAIN acc.stats THEN acc.keys
                          ELSE Append(acc.keys, tool),
                 stats |-> (tool :> new) @@ acc.stats])

\* the loop over results that fills tool_stats
RECURSIVE ToolStats(_)
ToolStats(results_) ==
  IF results_ = <<>> THEN Return(NoStats)
  ELSE
    LET n == Len(results_)
        before == ToolStats(SubSeq(results_, 1, n - 1))
    IN IF Raised(before) THEN before
       ELSE CountTool(before.ret, results_[n],
                      parse_json_output(results_[n].expected))

\* the order of Python strings on the strings of the model
StrRank(s) ==
  CASE s = "abc" -> 1
    [] s = "flyTo" -> 2
    [] s = "tool" -> 3
    [] s = "unknown" -> 4
    [] s = "zoom" -> 5

\* a < b of two dict keys; defined only where Comparable
KeyLess(a, b) ==
  IF a.t = "str" THEN StrRank(a.s) < StrRank(b.s) ELSE a.n < b.n

\* sorted() compares the keys pairwise: strings with strings, numbers with
\* numbers; any other pair raises TypeError
Comparable(keys) ==
  \/ Len(keys) <= 1
  \/ \A i \in 1..Len(keys) : keys[i].t = "str"
  \/ \A i \in 1..Len(keys) : keys[i].t = "num"

RECURSIVE InsertKey(_, _), SortKeys(_)
InsertKey(k, sorted) ==
  IF sorted = <<>> THEN <<k>>
  ELSE IF KeyLess(k, Head(sorted)) THEN <<k>> \o sorted
  ELSE <<Head(sorted)>> \o InsertKey(k, Tail(sorted))

SortKeys(keys) ==
  IF keys = <<>> THEN <<>> ELSE InsertKey(Head(keys), SortKeys(Tail(keys)))

\* the accuracy column of a per-tool row and of the saved per_tool entry
Accuracy(scale, st) ==
  IF st.total > 0 THEN Ratio(scale * st.correct, st.total) ELSE Ratio(0, 1)

\* the rows of the per-tool table, in sorted order of the tools
ToolTable(tool_stats, order) ==
  [i \in 1..Len(order) |->
     [tool |-> order[i],
      correct |-> tool_stats.stats[order[i]].correct,
      total |-> tool_stats.stats[order[i]].total,
      accuracy |-> Accuracy(100, tool_stats.stats[order[i]])]]

\* the per_tool mapping of the saved document, in the order of tool_stats
PerTool(tool_stats) ==
  [i \in 1..Len(tool_stats.keys) |->
     [tool |-> tool_stats.keys[i],
      accuracy |-> Accuracy(1, tool_stats.stats[tool_stats.keys[i]]),
      total |-> tool_stats.stats[tool_stats.keys[i]].total,
      correct |-> tool_stats.stats[tool_stats.keys[i]].correct]]

\* count / total if total > 0 else 0
Rate(count, total) == IF total > 0 THEN Ratio(count, total) ELSE Ratio(0, 1)

\* lines 250-318 of print_results: the tables and the saved document, from
\* the metrics of lines 231-238 and the tool_stats of lines 240-248
Report(results_, output_file, total, tool_correct, json_valid, exact_matches, avg_coord_error, tool_stats) ==
  IF total = 0 THEN Raise("ZeroDivisionError")     \* 100*tool_correct/total
  ELSE IF ~Comparable(tool_stats.keys) THEN Raise("TypeError")   \* sorted()
  ELSE
    Return(
      [table |->
         [total |-> total,
          tool_accuracy |-> [value |-> tool_correct,
                             percentage |-> Ratio(100 * tool_correct, total)],
          json_valid |-> [value |-> json_valid,
                          percentage |-> Ratio(100 * json_valid, total)],
          exact_match |-> [value |-> exact_matches,
                           percentage |-> Ratio(100 * exact_matches, total)],
          avg_coord_error |-> avg_coord_error],
       tool_table |-> ToolTable(tool_stats, SortKeys(tool_stats.keys)),
       tool_stats |-> tool_stats,
       output_data |->
         IF output_file
         THEN <<[summary |->
                   [total |-> total,
                    tool_accuracy |-> Rate(tool_correct, total),
                    json_valid_rate |-> Rate(json_valid, total),
                    exact_match_rate |-> Rate(exact_matches, total),
                    avg_coord_error |-> avg_coord_error],
                 per_tool |-> PerTool(tool_stats),
                 examples |-> results_]>>
         ELSE <<>>])

\* the report once the loop over results has filled tool_stats; an
\* exception of the loop ends print_results
ReportOf(results_, output_file, filled) ==
  IF Raised(filled) THEN filled
  ELSE Report(results_, output_file,
              Len(results_),
              CountIf(results_, "tool_match"),
              CountIf(results_, "json_valid"),
              CountIf(results_, "exact_match"),
              AvgCoordError(CoordErrors(results_)),
              filled.ret)

print_results(results_, output_file) ==
  ReportOf(results_, output_file, ToolStats(results_))

(***************************************************************************)
(* Documents.  A document is a syntax tree; Text serialises it the way     *)
(* json.dumps with separators (",", ":") does and Value is the Python      *)
(* value it denotes.  An object tree keeps its members in written order.   *)
(***************************************************************************)
TNum(lex) == [t |-> "num", lex |-> lex]
TStr(s) == [t |-> "str", s |-> s]
TArr(q) == [t |-> "arr", items |-> q]
TObj(q) == [t |-> "obj", pairs |-> q]
Member(key, tree) == [key |-> key, val |-> tree]

RECURSIVE Text(_), TextMembers(_), TextItems(_)
Text(tree) ==
  CASE tree.t = "num" -> <<NumTok(tree.lex)>>
    [] tree.t = "str" -> <<StrTok(tree.s)>>
    [] tree.t = "arr" -> <<LBrack>> \o TextItems(tree.items) \o <<RBrack>>
    [] tree.t = "obj" -> <<LBrace>> \o TextMembers(tree.pairs) \o <<RBrace>>

TextMembers(q) ==
  IF q = <<>> THEN <<>>
  ELSE <<StrTok(Head(q).key), Colon>> \o Text(Head(q).val)
       \o (IF Len(q) > 1 THEN <<Comma>> ELSE <<>>) \o TextMembers(Tail(q))

TextItems(q) ==
  IF q = <<>> THEN <<>>
  ELSE Text(Head(q)) \o (IF Len(q) > 1 THEN <<Comma>> ELSE <<>>)
       \o TextItems(Tail(q))

RECURSIVE Value(_), ValueMembers(_), ValueItems(_)
Value(tree) ==
  CASE tree.t = "num" -> JNum(NumOf(tree.lex))
    [] tree.t = "str" -> JStr(tree.s)
    [] tree.t = "arr" -> JArr(ValueItems(tree.items))
    [] tree.t = "obj" -> JObj(ValueMembers(tree.pairs))

ValueMembers(q) ==
  IF q = <<>> THEN <<>>
  ELSE LET n == Len(q) IN
    (q[n].key :> Value(q[n].val)) @@ ValueMembers(SubSeq(q, 1, n - 1))

ValueItems(q) ==
  IF q = <<>> THEN <<>> ELSE <<Value(Head(q))>> \o ValueItems(Tail(q))

\* number of mappings nested inside one another in the tree
RECURSIVE Depth(_), MaxDepthOf(_)
Depth(tree) ==
  CASE tree.t = "obj" ->
         1 + MaxDepthOf([i \in 1..Len(tree.pairs) |-> tree.pairs[i].val])
    [] tree.t = "arr" -> MaxDepthOf(tree.items)
    [] OTHER -> 0

MaxDepthOf(q) ==
  IF q = <<>> THEN 0
  ELSE LET d == Depth(Head(q))
           r == MaxDepthOf(Tail(q))
       IN IF d > r THEN d ELSE r

(***************************************************************************)
(* The tool-call documents of the model: a `tool` string and an            *)
(* `arguments` mapping whose values may be mappings down to MaxNest.       *)
(***************************************************************************)
Tools == {"flyTo", "zoom"}

Coords(lon, lat) ==
  TObj(<<Member("longitude", lon), Member("latitude", lat)>>)

RECURSIVE Args(_)
Args(n) ==
  IF n = 0 THEN {TObj(<<>>), Coords(TNum("10"), TNum("20"))}
  ELSE Args(n - 1) \cup
       {TObj(<<Member("longitude", TNum("10")), Member("options", a)>>) :
          a \in Args(n - 1)}

ToolDoc(tool, args) ==
  TObj(<<Member("tool", TStr(tool)), Member("arguments", args)>>)

ToolCallDocs == {ToolDoc(tool, a) : tool \in Tools, a \in Args(MaxNest)}

(***************************************************************************)
(* train_progress.py: the lines of the child's output.  A line is a        *)
(* sequence of tokens: the literal phrases of the three patterns,          *)
(* numerals (each a maximal run of digits and dots), whitespace and other  *)
(* text.                                                                   *)
(***************************************************************************)
Phrase(s) == Tok("phrase", s)
Other(s) == Tok("text", s)
Newline == Tok("ws", "\n")
\* a byte that is not UTF-8 text
Undecodable == Tok("bytes", "0xE9")

\* the text layer of process.stdout (text=True): a line that holds such a
\* byte is not handed to the loop, the read raises
decode(raw) ==
  IF \E i \in 1..Len(raw) : raw[i] = Undecodable
  THEN Raise("UnicodeDecodeError") ELSE Return(raw)

\* the characters of the numerals of the lines
Chars(lex) ==
  CASE lex = "10" -> <<"1", "0">>
    [] lex = "20" -> <<"2", "0">>
    [] lex = "0.9" -> <<"0", ".", "9">>
    [] lex = "0.000" -> <<"0", ".", "0", "0", "0">>
    [] lex = "2.1" -> <<"2", ".", "1">>
    [] lex = "4.2" -> <<"4", ".", "2">>
    [] lex = "4.20" -> <<"4", ".", "2", "0">>
    [] lex = "1.234" -> <<"1", ".", "2", "3", "4">>
    [] lex = "512.0" -> <<"5", "1", "2", ".", "0">>
    [] lex = "1.2.3" -> <<"1", ".", "2", ".", "3">>
    [] lex = "." -> <<".">>

DigitOf(c) ==
  CASE c = "0" -> 0 [] c = "1" -> 1 [] c = "2" -> 2 [] c = "3" -> 3
    [] c = "4" -> 4 [] c = "5" -> 5 [] c = "6" -> 6 [] c = "7" -> 7
    [] c = "8" -> 8 [] c = "9" -> 9

\* \d+ matches the whole numeral
AllDigits(lex) == \A i \in 1..Len(Chars(lex)) : Chars(lex)[i] # "."

RECURSIVE DigitsValue(_)
DigitsValue(digits) ==
  IF digits = <<>> THEN 0
  ELSE 10 * DigitsValue(SubSeq(digits, 1, Len(digits) - 1))
       + DigitOf(digits[Len(digits)])

\* the number n / 10^scale, with no trailing zero after the point
RECURSIVE Decimal(_, _)
Decimal(n, scale) ==
  IF scale > 0 /\ n % 10 = 0 THEN Decimal(n \div 10, scale - 1)
  ELSE [n |-> n, scale |-> scale]

\* int() of a group matched by \d+
int(lex) == DigitsValue(Chars(lex))

\* float() of a group matched by [\d.]+
float(lex) ==
  LET c == Chars(lex)
      dots == {i \in 1..Len(c) : c[i] = "."}
  IN
  IF Cardinality(dots) > 1 \/ Cardinality(dots) = Len(c)
  THEN Raise("ValueError")
  ELSE LET point == IF dots = {} THEN Len(c) + 1 ELSE CHOOSE i \in dots : TRUE
           whole == SubSeq(c, 1, point - 1)
           fraction == SubSeq(c, point + 1, Len(c))
       IN Return(Decimal(DigitsValue(whole \o fraction), Len(fraction)))

(***************************************************************************)
(* The three patterns, searched in a line.                                 *)
(***************************************************************************)
NumAt(line, i) == i <= Len(line) /\ line[i].k = "num"
PhraseAt(line, i, s) == i <= Len(line) /\ line[i] = Phrase(s)

\* the positions from `from` on where `phrase ([\d.]+)` matches
Fields(line, phrase, from) ==
  {j \in from..Len(line) : PhraseAt(line, j, phrase) /\ NumAt(line, j + 1)}

\* `Iter (\d+): Train loss ([\d.]+)` matches at i
IterHeadAt(line, i) ==
  /\ PhraseAt(line, i, "Iter ")
  /\ NumAt(line, i + 1) /\ AllDigits(line[i + 1].v)
  /\ PhraseAt(line, i + 2, ": Train loss ")
  /\ NumAt(line, i + 3)

\* the Tokens/sec fields after position j that a Peak mem field follows
TokSecAfter(line, j) ==
  {k \in Fields(line, "Tokens/sec ", j) :
     Fields(line, "Peak mem ", k + 2) # {}}

\* the It/sec fields after position i that the rest of the pattern follows
ItSecAfter(line, i) ==
  {j \in Fields(line, "It/sec ", i) : TokSecAfter(line, j + 2) # {}}

Greatest(S) == CHOOSE x \in S : \A y \in S : y <= x
Least(S) == CHOOSE x \in S : \A y \in S : x <= y

\* iter_pattern.search(line): <<>> for None, else <<the five groups>>.
\* The search takes the leftmost start, and each `.*` is greedy: it runs to
\* the last field after which the rest of the pattern still matches.
iter_search(line) ==
  LET starts == {i \in 1..Len(line) :
                   IterHeadAt(line, i) /\ ItSecAfter(line, i + 4) # {}}
  IN
  IF starts = {} THEN <<>>
  ELSE LET i == Least(starts)
           j == Greatest(ItSecAfter(line, i + 4))
           k == Greatest(TokSecAfter(line, j + 2))
           l == Greatest(Fields(line, "Peak mem ", k + 2))
       IN <<<<line[i + 1].v, line[i + 3].v, line[j + 1].v,
              line[k + 1].v, line[l + 1].v>>>>

\* val_pattern.search(line): <<>> for None, else <<the one group>>
val_search(line) ==
  LET starts == {i \in 1..Len(line) :
                   /\ PhraseAt(line, i, "Iter ")
                   /\ NumAt(line, i + 1) /\ AllDigits(line[i + 1].v)
                   /\ PhraseAt(line, i + 2, ": Val loss ")
                   /\ NumAt(line, i + 3)}
  IN IF starts = {} THEN <<>> ELSE <<<<line[Least(starts) + 3].v>>>>

\* save_pattern.search(line) is not None
save_search(line) ==
  \E i \in 1..Len(line) : line[i] = Phrase("Saved adapter weights")

(***************************************************************************)
(* The body of the loop of main for one line: the tracked values after     *)
(* each of its steps.  An exception ends the body where it is raised; the  *)
(* assignments made before it have taken place.                            *)
(***************************************************************************)
Tracked(current_iter_, train_loss_, val_loss_, tokens_per_sec_, peak_mem_, saved_) ==
  [current_iter |-> current_iter_, train_loss |-> train_loss_,
   val_loss |-> val_loss_, tokens_per_sec |-> tokens_per_sec_,
   peak_mem |-> peak_mem_, saved |-> saved_, exc |-> ""]

\* one assignment `field = float(group)`
AssignFloat(st, field, group) ==
  IF st.exc # "" THEN st
  ELSE LET v == float(group) IN
    IF Raised(v) THEN [st EXCEPT !.exc = v.exc]
    ELSE [st EXCEPT ![field] = v.ret]

\* lines 100-106
ParseIteration(st, iter_match) ==
  IF iter_match = <<>> THEN st
  ELSE LET g == iter_match[1]
           s1 == [st EXCEPT !.current_iter = int(g[1])]
           s2 == AssignFloat(s1, "train_loss", g[2])
           s3 == AssignFloat(s2, "tokens_per_sec", g[4])
           s4 == AssignFloat(s3, "peak_mem", g[5])
       IN IF s4.exc # "" THEN s4 ELSE [s4 EXCEPT !.saved = FALSE]

\* ParseValidation also resetting the save indicator
ParseValidation_resetting(st, val_match) ==
  IF st.exc # "" \/ val_match = <<>> THEN st
  ELSE [AssignFloat(st, "val_loss", val_match[1][1]) EXCEPT !.saved = FALSE]

\* lines 109-111
ParseValidation(st, val_match) ==
  IF st.exc # "" \/ val_match = <<>> THEN st
  ELSE AssignFloat(st, "val_loss", val_match[1][1])

\* lines 114-115
CheckSave(st, line) ==
  IF st.exc = "" /\ save_search(line) THEN [st EXCEPT !.saved = TRUE] ELSE st

Positive(x) == x.n > 0

\* int(n / d) for d > 0: the quotient rounded towards zero
Trunc(n, d) == IF n >= 0 THEN n \div d ELSE -((-n) \div d)

\* the length of `cell * n`: a string repeated a negative number of times
\* is empty
Repeat(n) == IF n > 0 THEN n ELSE 0

\* create_progress_bar without the zero case of line 17 being empty: the bar
\* of a run of no iterations shown as full
create_progress_bar_full(current, total, width) ==
  IF total = 0
  THEN [filled |-> Repeat(width), empty |-> 0, percent |-> Ratio(100, 1)]
  ELSE LET filled == Trunc(width * current, total) IN
    [filled |-> Repeat(filled),
     empty |-> Repeat(width - filled),
     percent |-> Ratio(current * 100, total)]

\* create_progress_bar: the filled and the empty cells of the bar and the
\* percentage shown (current / total * 100, before it is formatted)
create_progress_bar(current, total, width) ==
  IF total = 0
  THEN [filled |-> 0, empty |-> Repeat(width), percent |-> Ratio(0, 1)]
  ELSE LET filled == Trunc(width * current, total) IN
    [filled |-> Repeat(filled),
     empty |-> Repeat(width - filled),
     percent |-> Ratio(current * 100, total)]

\* lines 120-125: what the status line and the bar show
Display(st, total_iters_, bar_width_) ==
  [status |-> [current_iter |-> st.current_iter, total_iters |-> total_iters_,
               train_loss |-> <<st.train_loss>>,
               val_indicator |-> IF Positive(st.val_loss)
                                 THEN <<st.val_loss>> ELSE <<>>,
               tokens_per_sec |-> st.tokens_per_sec,
               peak_mem |-> st.peak_mem,
               save_indicator |-> st.saved],
   progress |-> create_progress_bar(st.current_iter, total_iters_, bar_width_)]

\* lines 90-92: the display before the first line
InitialDisplay(total_iters_, bar_width_) ==
  [status |-> [current_iter |-> 0, total_iters |-> total_iters_,
               train_loss |-> <<>>, val_indicator |-> <<>>,
               tokens_per_sec |-> Decimal(0, 0), peak_mem |-> Decimal(0, 0),
               save_indicator |-> FALSE],
   progress |-> create_progress_bar(0, total_iters_, bar_width_)]

(***************************************************************************)
(* Sequences over an alphabet, up to a length.                             *)
(***************************************************************************)
RECURSIVE SeqsUpTo(_, _)
SeqsUpTo(S, n) ==
  IF n = 0 THEN {<<>>}
  ELSE LET shorter == SeqsUpTo(S, n - 1) IN
    shorter \cup {Append(q, x) : q \in shorter, x \in S}

RawAlphabet ==
  {LBrace, RBrace, LBrack, RBrack, Colon, Comma, Space,
   StrTok("tool"), NumTok("1"), Word("Sure"), DeepOpen}
ProseAlphabet == {Word("Sure"), Space, LBrace, RBrace}

\* a run of letters and digits is one token: no two numeral / word tokens
\* stand next to each other in a text
Lexical(toks) ==
  \A i \in 1..(Len(toks) - 1) :
    ~(toks[i].k \in {"num", "word"} /\ toks[i + 1].k \in {"num", "word"})

RawTexts == {q \in SeqsUpTo(RawAlphabet, MaxLen) : Lexical(q)}

\* longer texts in which the first candidate of a pattern is not the first
\* that parses: {1}{"tool":1}{}, {{}{}} and {{}{"tool":1}{}}
LadderTexts ==
  {<<LBrace, NumTok("1"), RBrace,
     LBrace, StrTok("tool"), Colon, NumTok("1"), RBrace, LBrace, RBrace>>,
   <<LBrace, LBrace, RBrace, LBrace, RBrace, RBrace>>,
   <<LBrace, LBrace, RBrace,
     LBrace, StrTok("tool"), Colon, NumTok("1"), RBrace,
     LBrace, RBrace, RBrace>>}
ProseRuns == {q \in SeqsUpTo(ProseAlphabet, MaxProse) : Lexical(q)}

(***************************************************************************)
(* The texts of the samples: ground-truth outputs of the test file and     *)
(* responses of the model, which may be any text.                          *)
(***************************************************************************)
ArgForms ==
  {TObj(<<>>),
   Coords(TNum("10"), TNum("20")),
   Coords(TNum("13"), TNum("20")),
   Coords(TStr("abc"), TNum("20")),
   TObj(<<Member("latitude", TNum("20"))>>),
   TArr(<<>>),
   TNum("5")}

SampleDocs ==
  {ToolDoc(tool, a) : tool \in Tools, a \in ArgForms}
  \cup {TObj(<<Member("arguments", a)>>) :
          a \in {TObj(<<>>), Coords(TNum("10"), TNum("20"))}}
  \cup {TObj(<<>>), TNum("0"), TNum("5"), TArr(<<TNum("1")>>)}

NotJson == <<Word("not"), Space, Word("json")>>

SampleTexts ==
  {Text(d) : d \in SampleDocs}
  \cup {<<Space>> \o Text(d) : d \in SampleDocs}
  \cup {<<Word("Sure"), Space>> \o Text(d) \o <<Space, Word("Done")>> :
          d \in SampleDocs}
  \cup {NotJson}

\* the smaller choice of texts of the batches
BatchExpected ==
  {Text(ToolDoc("flyTo", Coords(TNum("10"), TNum("20")))),
   Text(ToolDoc("zoom", TObj(<<>>))),
   Text(TObj(<<Member("arguments", TObj(<<>>))>>)),
   Text(TObj(<<>>)),
   NotJson}

BatchPredicted ==
  {Text(ToolDoc("flyTo", Coords(TNum("10"), TNum("20")))),
   Text(ToolDoc("flyTo", Coords(TNum("13"), TNum("20")))),
   <<Word("Sure"), Space>> \o Text(ToolDoc("zoom", TObj(<<>>))),
   Text(ToolDoc("flyTo", TArr(<<>>))),
   NotJson}

(***************************************************************************)
(* State.                                                                  *)
(***************************************************************************)
VARIABLES
  text,        \* the text handed to parse_json_output
  source,      \* how text was made: raw tokens, or a document inside prose
  extracted,   \* <<>> before the call, <<value returned>> after it
  expected,    \* example["output"] of the example being evaluated
  predicted,   \* the response generated for it
  results,     \* the list `results` of main
  pc,          \* where main is: "evaluating", "generated", "done", "raised"
  error,       \* the exception that ended main, "" if none
  report,      \* <<>>, or <<what print_results computed>>
  monitor,     \* where main of train_progress.py is: "idle" (not run),
               \* "started", "reading", "waiting" (in process.wait),
               \* "raised", "interrupted", "exited"
  total_iters, \* int(sys.argv[1])
  term_width,  \* the columns of the terminal the monitor writes to
  current_iter,
  train_loss,
  val_loss,
  tokens_per_sec,
  peak_mem,
  saved,
  stdout,      \* the lines read from process.stdout so far
  rendered,    \* the calls of render so far, each with what it displays
  exit_status, \* <<>>, or <<the exit status of the monitor>>
  child,       \* the training command: "none" (not started), "running",
               \* "closed" (running, its output closed), "signalled"
               \* (sent SIGTERM, running), "exited", "terminated"
  returncode,  \* <<>>, or <<the status the child ended with>>
  indicator    \* the closing message printed: "", "complete", "failed",
               \* "interrupted"

xvars == <<text, source, extracted>>
mvars == <<expected, predicted, results, pc, error, report>>
tvars == <<current_iter, train_loss, val_loss, tokens_per_sec, peak_mem, saved>>
cvars == <<child, returncode, indicator>>
pvars == <<monitor, total_iters, term_width, tvars, stdout, rendered, exit_status, cvars>>
vars == <<text, source, extracted, expected, predicted, results, pc, error,
          report, pvars>>

Raw == [kind |-> "raw"]
Embedded(doc, pre, post) ==
  [kind |-> "doc", doc |-> doc, pre |-> pre, post |-> post]

\* the state of main before the first example
MainIdle ==
  /\ expected = <<>>
  /\ predicted = <<>>
  /\ results = <<>>
  /\ pc = "evaluating"
  /\ error = ""
  /\ report = <<>>

\* lines 64-69 of train_progress.py: the tracked values before any line
TrackedInitially ==
  /\ current_iter = 0
  /\ train_loss = Decimal(0, 0)
  /\ val_loss = Decimal(0, 0)
  /\ tokens_per_sec = Decimal(0, 0)
  /\ peak_mem = Decimal(0, 0)
  /\ saved = FALSE

\* train_progress.py is not running
MonitorIdle ==
  /\ monitor = "idle"
  /\ total_iters = 0
  /\ term_width = 80
  /\ TrackedInitially
  /\ stdout = <<>>
  /\ rendered = <<>>
  /\ exit_status = <<>>
  /\ child = "none"
  /\ returncode = <<>>
  /\ indicator = ""

(***************************************************************************)
(* The extractor applied to one text.                                      *)
(***************************************************************************)
InitExtract ==
  /\ extracted = <<>>
  /\ MainIdle
  /\ MonitorIdle
  /\ \/ /\ text \in RawTexts \cup LadderTexts
        /\ source = Raw
     \/ \E doc \in ToolCallDocs : \E pre \in ProseRuns : \E post \in ProseRuns :
          /\ Lexical(pre \o Text(doc) \o post)
          /\ text = pre \o Text(doc) \o post
          /\ source = Embedded(doc, pre, post)

\* the call: the value returned is kept in extracted, an exception the
\* call lets through in error
Extract ==
  /\ extracted = <<>>
  /\ pc = "evaluating"
  /\ LET o == parse_json_output(text) IN
       IF Raised(o)
       THEN /\ pc' = "raised"
            /\ error' = o.exc
            /\ UNCHANGED extracted
       ELSE /\ extracted' = <<o>>
            /\ UNCHANGED <<pc, error>>
  /\ UNCHANGED <<text, source>>
  /\ UNCHANGED <<expected, predicted, results, report>>
  /\ UNCHANGED pvars

NextExtract == Extract

SpecExtract == InitExtract /\ [][NextExtract]_vars

(***************************************************************************)
(* evaluate_sample applied to one example (the body of the loop of main).  *)
(***************************************************************************)
Instruction == "instruction"

ExtractorIdle ==
  /\ text = <<>>
  /\ source = Raw
  /\ extracted = <<>>

EvaluateSample ==
  /\ pc = "generated"
  /\ LET o == evaluate_sample(expected, predicted, Instruction) IN
       IF Raised(o)
       THEN /\ pc' = "raised"
            /\ error' = o.exc
            /\ UNCHANGED results
       ELSE /\ results' = Append(results, o.ret)
            /\ pc' = "evaluating"
            /\ UNCHANGED error
  /\ UNCHANGED <<expected, predicted, report>>
  /\ UNCHANGED <<xvars, pvars>>

InitSample ==
  /\ ExtractorIdle
  /\ MonitorIdle
  /\ expected \in SampleTexts
  /\ predicted \in SampleTexts
  /\ results = <<>>
  /\ pc = "generated"
  /\ error = ""
  /\ report = <<>>

NextSample == EvaluateSample

SpecSample == InitSample /\ [][NextSample]_vars

(***************************************************************************)
(* main: the evaluation loop and the report.  The test file is an input:   *)
(* it may hold any number of examples up to MaxSamples, so the loop may    *)
(* take another example or end after any number of them.                   *)
(***************************************************************************)
Init ==
  /\ ExtractorIdle
  /\ MainIdle
  /\ MonitorIdle

\* `for example in test_data`: the next example and the generated response
NextExample ==
  /\ pc = "evaluating"
  /\ Len(results) < MaxSamples
  /\ expected' \in BatchExpected
  /\ predicted' \in BatchPredicted
  /\ pc' = "generated"
  /\ UNCHANGED <<results, error, report>>
  /\ UNCHANGED <<xvars, pvars>>

\* print_results(results, args.output) once test_data is exhausted
PrintResults ==
  /\ pc = "evaluating"
  /\ \E output_file \in BOOLEAN :
       LET o == print_results(results, output_file) IN
         IF Raised(o)
         THEN /\ pc' = "raised"
              /\ error' = o.exc
              /\ UNCHANGED report
         ELSE /\ pc' = "done"
              /\ report' = <<o.ret>>
              /\ UNCHANGED error
  /\ UNCHANGED <<expected, predicted, results>>
  /\ UNCHANGED <<xvars, pvars>>

Next ==
  \/ NextExample
  \/ EvaluateSample
  \/ PrintResults

Spec == Init /\ [][Next]_vars

(***************************************************************************)
(* print_results applied to a list of results (the aggregation and the     *)
(* report alone).  The list is one main can have built: every result is    *)
(* what evaluate_sample returns for an example and its response.           *)
(***************************************************************************)
Point(lon, lat) == ToolDoc("flyTo", Coords(TNum(lon), TNum(lat)))

\* the examples and responses of the lists: expected text, predicted text
AggregatePairs ==
  {<<Text(Point("0", "0")), Text(Point("1", "0"))>>,
   <<Text(Point("0", "0")), Text(Point("1", "1"))>>,
   <<Text(ToolDoc("zoom", Coords(TNum("10"), TNum("0")))),
     Text(Point("13", "1"))>>,
   <<Text(ToolDoc("zoom", TObj(<<>>))),
     <<Word("Sure"), Space>> \o Text(ToolDoc("zoom", TObj(<<>>)))>>,
   <<Text(TObj(<<Member("tool", TNum("5")), Member("arguments", TObj(<<>>))>>)),
     Text(ToolDoc("zoom", TObj(<<>>)))>>,
   <<Text(TObj(<<>>)), Text(Point("1", "0"))>>,
   <<NotJson, NotJson>>}

BatchResults ==
  {evaluate_sample(pair[1], pair[2], Instruction).ret : pair \in AggregatePairs}

InitAggregate ==
  /\ ExtractorIdle
  /\ MonitorIdle
  /\ results \in SeqsUpTo(BatchResults, MaxBatch)
  /\ expected = IF results = <<>> THEN <<>> ELSE results[Len(results)].expected
  /\ predicted = IF results = <<>> THEN <<>>
                 ELSE results[Len(results)].predicted
  /\ pc = "evaluating"
  /\ error = ""
  /\ report = <<>>

NextAggregate == PrintResults

SpecAggregate == InitAggregate /\ [][NextAggregate]_vars

(***************************************************************************)
(* main of train_progress.py: the monitor reads the output of the training *)
(* command line by line.  The command is an argument of the monitor, so    *)
(* its output may be any text; the lines below are reports as mlx prints   *)
(* them, other output, and lines in which reports run together or are cut  *)
(* short.  The terminal is taken to be at least 70 columns wide, so the    *)
(* bar has its full width of 50 cells.                                     *)
(***************************************************************************)
IterLine(n, loss, tps, mem) ==
  <<Phrase("Iter "), NumTok(n), Phrase(": Train loss "), NumTok(loss),
    Other(", "), Phrase("It/sec "), NumTok("2.1"),
    Other(", "), Phrase("Tokens/sec "), NumTok(tps),
    Other(", "), Phrase("Peak mem "), NumTok(mem)>>

ValLine(n, loss) ==
  <<Phrase("Iter "), NumTok(n), Phrase(": Val loss "), NumTok(loss),
    Other(", Val took "), NumTok("2.1"), Other("s")>>

SaveLine(n) ==
  <<Phrase("Iter "), NumTok(n), Other(": "),
    Phrase("Saved adapter weights"), Other(" to adapters")>>

ExampleLine == IterLine("10", "1.234", "512.0", "4.2")

ProgressLines ==
  {l \o <<Newline>> :
     l \in {ExampleLine,
            IterLine("20", "0.9", "512.0", "4.20"),
            ValLine("10", "0.9"),
            <<Space>> \o ValLine("20", "1.234"),
            SaveLine("10"),
            <<Other("Loading pretrained model")>>,
            \* an iteration report cut short after It/sec
            SubSeq(ExampleLine, 1, 7),
            \* two reports on one line
            ExampleLine \o <<Space>> \o SaveLine("10"),
            ExampleLine \o <<Space>> \o ValLine("10", "0.9"),
            ValLine("10", "0.9") \o <<Space>> \o SaveLine("10"),
            \* a second Peak mem field
            ExampleLine \o <<Other(", "), Phrase("Peak mem "), NumTok("0.9")>>,
            \* runs of digits and dots that are not numbers
            IterLine("10", "1.2.3", "512.0", "4.2"),
            IterLine("10", "1.234", "512.0", "."),
            ValLine("10", "."),
            \* a validation loss of zero
            ValLine("10", "0.000"),
            \* output that is not UTF-8
            <<Other("caf"), Undecodable, Other(" loading")>>}}

TotalIters == {0, 10}
\* process.returncode: success, failure, killed by signal 9
ReturnCodes == {0, 1, -9}

\* line 90: the width of the bar
bar_width == IF term_width - 20 < 50 THEN term_width - 20 ELSE 50

\* main has started the child (line 76) on a terminal of one of the widths
Started(widths) ==
  /\ ExtractorIdle
  /\ MainIdle
  /\ monitor = "started"
  /\ total_iters \in TotalIters
  /\ term_width \in widths
  /\ TrackedInitially
  /\ stdout = <<>>
  /\ rendered = <<>>
  /\ exit_status = <<>>
  /\ child = "running"
  /\ returncode = <<>>
  /\ indicator = ""

\* the monitor on a terminal of 80 columns, the size reported when its output
\* is not a terminal
InitProgress == Started({80})

\* lines 84-93: the display before any line is read
InitialRender ==
  /\ monitor = "started"
  /\ rendered' = Append(rendered, InitialDisplay(total_iters, bar_width))
  /\ monitor' = "reading"
  /\ UNCHANGED <<total_iters, term_width, tvars, stdout, exit_status, cvars>>
  /\ UNCHANGED <<xvars, mvars>>

\* lines 96-128: one turn of `for line in process.stdout`, the line being
\* one of lines
Read(lines) ==
  /\ \E raw \in lines :
       LET line == strip(raw)
           iter_match == iter_search(line)
           val_match == val_search(line)
           before == Tracked(current_iter, train_loss, val_loss,
                             tokens_per_sec, peak_mem, saved)
           st == IF Raised(decode(raw))
                 THEN [before EXCEPT !.exc = decode(raw).exc]
                 ELSE CheckSave(
                        ParseValidation(ParseIteration(before, iter_match),
                                        val_match),
                        line)
       IN
       /\ stdout' = Append(stdout, raw)
       /\ current_iter' = st.current_iter
       /\ train_loss' = st.train_loss
       /\ val_loss' = st.val_loss
       /\ tokens_per_sec' = st.tokens_per_sec
       /\ peak_mem' = st.peak_mem
       /\ saved' = st.saved
       /\ IF st.exc # ""
          THEN \* the exception is not caught: the monitor ends with status 1
               /\ monitor' = "raised"
               /\ error' = st.exc
               /\ exit_status' = <<1>>
               /\ UNCHANGED rendered
          ELSE /\ rendered' = IF iter_match # <<>> \/ val_match # <<>>
                              THEN Append(rendered, Display(st, total_iters, bar_width))
                              ELSE rendered
               /\ UNCHANGED <<monitor, error, exit_status>>
  /\ UNCHANGED <<total_iters, term_width, cvars>>
  /\ UNCHANGED <<expected, predicted, results, pc, report>>
  /\ UNCHANGED xvars

ReadLine ==
  /\ monitor = "reading"
  /\ Len(stdout) < MaxLines
  /\ Read(ProgressLines)

\* KeyboardInterrupt.  The try block of lines 95-133 holds the loop only:
\* there the child is sent SIGTERM (process.terminate, not awaited) and the
\* monitor exits with status 1.  Before the loop (lines 76-93) and in
\* process.wait (line 135) the exception is not caught: the interpreter
\* ends on SIGINT (status 130) and the child is left as it is.
KeyboardInterrupt ==
  /\ monitor \in {"started", "reading", "waiting"}
  /\ IF monitor = "reading"
     THEN /\ monitor' = "interrupted"
          /\ child' = IF child \in {"running", "closed"}
                      THEN "signalled" ELSE child
          /\ indicator' = "interrupted"
          /\ exit_status' = <<1>>
          /\ UNCHANGED error
     ELSE /\ monitor' = "raised"
          /\ error' = "KeyboardInterrupt"
          /\ exit_status' = <<130>>
          /\ UNCHANGED <<child, indicator>>
  /\ UNCHANGED <<total_iters, term_width, tvars, stdout, rendered, returncode>>
  /\ UNCHANGED <<expected, predicted, results, pc, report>>
  /\ UNCHANGED xvars

\* lines 130-133: KeyboardInterrupt while the loop waits for a line
Interrupt ==
  /\ monitor = "reading"
  /\ KeyboardInterrupt

\* the closing message of lines 140-143
Indicator(code) == IF code = 0 THEN "complete" ELSE "failed"

\* lines 135-145 once the child has exited with status code: process.wait
\* returns, the message is printed and sys.exit(main()) ends the monitor
Exit(code) ==
  /\ indicator' = Indicator(code)
  /\ exit_status' = <<code % 256>>
  /\ monitor' = "exited"

\* the child exits and the loop, finding the output at its end, goes on to
\* lines 135-145
StreamEnds ==
  /\ monitor = "reading"
  /\ child = "running"
  /\ \E code \in ReturnCodes :
       /\ returncode' = <<code>>
       /\ Exit(code)
  /\ child' = "exited"
  /\ UNCHANGED <<total_iters, term_width, tvars, stdout, rendered>>
  /\ UNCHANGED <<xvars, mvars>>

NextProgress ==
  \/ InitialRender
  \/ ReadLine
  \/ Interrupt
  \/ StreamEnds

SpecProgress == InitProgress /\ [][NextProgress]_vars

(***************************************************************************)
(* The monitor and the training command as two processes: the child may    *)
(* close its output and exit at any time, an interrupt may arrive at any   *)
(* point of main, and the monitor notices the end of the output and the    *)
(* exit of the child in steps of its own.  The lines are few: a report, a  *)
(* report the monitor fails on, and other output.                          *)
(***************************************************************************)
LifecycleLines ==
  {l \o <<Newline>> :
     l \in {ExampleLine,
            IterLine("20", "0.9", "512.0", "4.20"),
            ValLine("10", "1.2.3"),
            <<Other("Loading pretrained model")>>}}

\* terminals wide enough for the whole bar, for a bar of 10 cells, for an
\* empty bar, and narrower than the 20 columns main sets aside
TermWidths == {80, 30, 20, 10}

InitLifecycle == Started(TermWidths)

ReadReport ==
  /\ monitor = "reading"
  /\ Len(stdout) < MaxLines
  /\ Read(LifecycleLines)

\* the child closes its standard output and goes on running
ChildCloses ==
  /\ child = "running"
  /\ child' = "closed"
  /\ UNCHANGED <<monitor, total_iters, term_width, tvars, stdout, rendered, exit_status>>
  /\ UNCHANGED <<returncode, indicator>>
  /\ UNCHANGED <<xvars, mvars>>

\* the child ends by itself
ChildExits ==
  /\ child \in {"running", "closed"}
  /\ child' = "exited"
  /\ \E code \in ReturnCodes : returncode' = <<code>>
  /\ UNCHANGED <<monitor, total_iters, term_width, tvars, stdout, rendered, exit_status>>
  /\ UNCHANGED indicator
  /\ UNCHANGED <<xvars, mvars>>

\* the child ends on the SIGTERM of process.terminate
ChildDies ==
  /\ child = "signalled"
  /\ child' = "terminated"
  /\ returncode' = <<-15>>
  /\ UNCHANGED <<monitor, total_iters, term_width, tvars, stdout, rendered, exit_status>>
  /\ UNCHANGED indicator
  /\ UNCHANGED <<xvars, mvars>>

\* line 96: the output is at its end and the loop is left
EndOfStream ==
  /\ monitor = "reading"
  /\ child \in {"closed", "exited"}
  /\ monitor' = "waiting"
  /\ UNCHANGED <<total_iters, term_width, tvars, stdout, rendered, exit_status, cvars>>
  /\ UNCHANGED <<xvars, mvars>>

\* lines 135-145: process.wait returns once the child has exited
Wait ==
  /\ monitor = "waiting"
  /\ child = "exited"
  /\ Exit(returncode[1])
  /\ UNCHANGED <<total_iters, term_width, tvars, stdout, rendered, child, returncode>>
  /\ UNCHANGED <<xvars, mvars>>

NextLifecycle ==
  \/ InitialRender
  \/ ReadReport
  \/ EndOfStream
  \/ Wait
  \/ KeyboardInterrupt
  \/ ChildCloses
  \/ ChildExits
  \/ ChildDies

SpecLifecycle == InitLifecycle /\ [][NextLifecycle]_vars

(***************************************************************************)
(* Vocabulary of the properties.                                           *)
(***************************************************************************)
\* the extractor reports absent by returning None
Absent(v) == v = None

\* the record's arguments do not hold both coordinates
LacksCoordinates(record) ==
  LET a == dict_get(record, "arguments", EmptyDict) IN
    \/ ~is_dict(a)
    \/ "longitude" \notin DOMAIN a.kv
    \/ "latitude" \notin DOMAIN a.kv

\* the value of a coordinate of the prediction as the claim counts it:
\* 0 when it is missing or is no number
ClaimedCoordinate(record, name) ==
  LET a == dict_get(record, "arguments", EmptyDict) IN
    IF is_dict(a) /\ name \in DOMAIN a.kv /\ to_float(a.kv[name]).ok
    THEN to_float(a.kv[name]).x ELSE 0

Square(x) == x * x

\* the sum of the totals of all buckets of tool_stats
RECURSIVE SumTotals(_, _)
SumTotals(keys, stats) ==
  IF keys = <<>> THEN 0
  ELSE stats[Head(keys)].total + SumTotals(Tail(keys), stats)

\* the expected text of a result names no tool: it does not extract, or
\* the extracted record has no `tool` field
NoResolvableTool(r) ==
  LET v == parse_json_output(r.expected) IN
    ~is_dict(v) \/ "tool" \notin DOMAIN v.kv

\* some contiguous part of the run is a JSON document
HoldsJson(run) ==
  \E i \in 1..Len(run) : \E j \in i..Len(run) :
    json_loads(SubSeq(run, i, j)).ok

(***************************************************************************)
(* C1: parse_json_output returns a record only if the parsed value is a    *)
(* mapping; a text that parses to an array, string, number or boolean      *)
(* yields absent.  (SpecExtract)                                           *)
(***************************************************************************)
C1_OnlyMappingsReturned ==
  extracted # <<>> => (Absent(extracted[1]) \/ is_dict(extracted[1]))

(***************************************************************************)
(* C2: evaluating one sample never aborts: every example taken by the      *)
(* loop yields a result that is appended, and the loop goes on to the      *)
(* remaining examples.  (Spec)                                             *)
(***************************************************************************)
C2_SampleNeverAborts ==
  [][pc = "generated" =>
       (pc' = "evaluating" /\ Len(results') = Len(results) + 1)]_vars

(***************************************************************************)
(* C3: print_results of an empty list ends in an explicit empty-input      *)
(* signal or sentinel; no ZeroDivisionError reaches the caller.  (Spec)    *)
(***************************************************************************)
C3_EmptyBatchSignalled ==
  (results = <<>> /\ pc = "raised") => error # "ZeroDivisionError"

(***************************************************************************)
(* C4: every sample is attributed to a bucket of the per-tool breakdown:   *)
(* the bucket totals add up to the number of samples, and the samples      *)
(* whose expected text does not extract or names no tool are counted in    *)
(* the "unknown" bucket.  (Spec)                                           *)
(***************************************************************************)
C4_EverySampleInABucket ==
  report # <<>> =>
    LET ts == report[1].tool_stats
        unnamed == {i \in 1..Len(results) : NoResolvableTool(results[i])}
    IN /\ SumTotals(ts.keys, ts.stats) = Len(results)
       /\ unnamed # {} =>
            /\ JStr("unknown") \in DOMAIN ts.stats
            /\ ts.stats[JStr("unknown")].total = Cardinality(unnamed)

(***************************************************************************)
(* C5: tool_match is true if and only if both texts extract and their      *)
(* `tool` fields are equal; it is false when either extraction is absent.  *)
(* (SpecSample)                                                            *)
(***************************************************************************)
C5_ToolMatchIff ==
  \A i \in 1..Len(results) :
    LET e == parse_json_output(results[i].expected)
        p == parse_json_output(results[i].predicted)
    IN results[i].tool_match <=>
         /\ ~Absent(e)
         /\ ~Absent(p)
         /\ is_dict(e) /\ is_dict(p)
         /\ dict_get(e, "tool", None) = dict_get(p, "tool", None)

(***************************************************************************)
(* C6: when both texts extract and the expected arguments hold numeric     *)
(* longitude and latitude, coordinate_error is present and is the          *)
(* Euclidean distance to the predicted coordinates, a predicted            *)
(* coordinate that is missing or no number counting as 0.  (SpecSample)    *)
(***************************************************************************)
C6_CoordinateErrorPresent ==
  \A i \in 1..Len(results) :
    LET e == parse_json_output(results[i].expected)
        p == parse_json_output(results[i].predicted)
    IN (/\ is_dict(e) /\ is_dict(p)
        /\ ~LacksCoordinates(e)
        /\ dict_get(e, "arguments", EmptyDict).kv["longitude"].t = "num"
        /\ dict_get(e, "arguments", EmptyDict).kv["latitude"].t = "num")
       => results[i].coord_error =
            Root(Square(ClaimedCoordinate(e, "longitude")
                        - ClaimedCoordinate(p, "longitude"))
                 + Square(ClaimedCoordinate(e, "latitude")
                          - ClaimedCoordinate(p, "latitude")))

(***************************************************************************)
(* C7: if the expected record lacks longitude or latitude in its           *)
(* arguments, or either extraction is absent, coordinate_error is absent   *)
(* whatever the predicted text holds.  (SpecSample)                        *)
(***************************************************************************)
C7_NoGroundTruthNoError ==
  \A i \in 1..Len(results) :
    LET e == parse_json_output(results[i].expected)
        p == parse_json_output(results[i].predicted)
    IN (Absent(e) \/ Absent(p) \/ ~is_dict(e) \/ LacksCoordinates(e))
       => results[i].coord_error = None

\* the expected record has only a latitude, the prediction has both
\* coordinates, and the sample was evaluated
C7_Witness ==
  /\ Len(results) = 1
  /\ expected = Text(ToolDoc("flyTo", TObj(<<Member("latitude", TNum("20"))>>)))
  /\ predicted = Text(ToolDoc("flyTo", Coords(TNum("13"), TNum("20"))))
  /\ results[1].coord_error = None
  /\ results[1].tool_match

C9_RecordNeverPartial ==
  (extracted # <<>> /\ is_dict(extracted[1])) =>
    /\ "tool" \in DOMAIN extracted[1].kv
    /\ "arguments" \in DOMAIN extracted[1].kv

(***************************************************************************)
(* C9 as amended: what the extractor returns is never synthesized: it is   *)
(* absent, or the value json.loads gives for the whole trimmed text or     *)
(* for one brace-delimited contiguous part of it.  (SpecExtract)           *)
(***************************************************************************)
C9_NeverSynthesized ==
  (extracted # <<>> /\ ~Absent(extracted[1])) =>
    LET t == strip(text) IN
      \E i \in 1..Len(t) : \E j \in i..Len(t) :
        LET c == SubSeq(t, i, j) IN
          /\ (i = 1 /\ j = Len(t)) \/ (c[1] = LBrace /\ c[Len(c)] = RBrace)
          /\ json_loads(c).ok
          /\ json_loads(c).val = extracted[1]

\* a record without `tool` and `arguments` taken out of surrounding tokens
C9_Witness ==
  /\ text = <<Word("Sure"), LBrace, RBrace, Comma>>
  /\ extracted = <<EmptyDict>>

C11_ExtractorNeverRaises ==
  /\ pc # "raised"
  /\ (extracted # <<>> /\ ~HoldsJson(text)) => Absent(extracted[1])

(***************************************************************************)
(* C12: tool accuracy, validity rate and exact-match rate are count/total  *)
(* with total the number of all samples; the mean coordinate error is the  *)
(* sum of the defined coordinate errors over the number of samples that    *)
(* have one, and is absent when no sample has one.  (Spec)                 *)
(***************************************************************************)
\* the samples of the batch for which the flag is set
Flagged(flag) == {i \in 1..Len(results) : results[i][flag]}

\* the samples with a defined coordinate error
WithError == {i \in 1..Len(results) : results[i].coord_error # None}
\* the defined coordinate errors of the samples 1..n, in the order of the
\* samples
RECURSIVE DefinedErrors(_)
DefinedErrors(n) ==
  IF n = 0 THEN <<>>
  ELSE IF n \in WithError
  THEN Append(DefinedErrors(n - 1), results[n].coord_error)
  ELSE DefinedErrors(n - 1)

\* the mean the claim describes
MeanOfDefined ==
  IF WithError = {} THEN None
  ELSE FDivInt(FloatSum(DefinedErrors(Len(results))), Cardinality(WithError))

C12_RatesOverAllSamples ==
  report # <<>> =>
    LET t == report[1].table
        n == Len(results)
    IN /\ t.total = n
       /\ t.tool_accuracy.percentage
            = Ratio(100 * Cardinality(Flagged("tool_match")), n)
       /\ t.json_valid.percentage
            = Ratio(100 * Cardinality(Flagged("json_valid")), n)
       /\ t.exact_match.percentage
            = Ratio(100 * Cardinality(Flagged("exact_match")), n)
       /\ t.avg_coord_error = MeanOfDefined
       /\ report[1].output_data # <<>> =>
            LET sm == report[1].output_data[1].summary IN
              /\ sm.total = n
              /\ sm.tool_accuracy = Ratio(Cardinality(Flagged("tool_match")), n)
              /\ sm.json_valid_rate
                   = Ratio(Cardinality(Flagged("json_valid")), n)
              /\ sm.exact_match_rate
                   = Ratio(Cardinality(Flagged("exact_match")), n)
              /\ sm.avg_coord_error = MeanOfDefined

\* a saved report of two samples: one prediction does not extract and has
\* no coordinate error, the other is off by 3
C12_Witness ==
  /\ report # <<>>
  /\ report[1].output_data # <<>>
  /\ Len(results) = 2
  /\ ~results[1].json_valid
  /\ results[1].coord_error = None
  /\ results[2].coord_error = Root(9)
  /\ report[1].table.avg_coord_error = FloatOfInt(3)

(***************************************************************************)
(* C13: for every tool identifier t, the bucket of t has total equal to    *)
(* the number of samples whose expected record names t ("unknown" when     *)
(* the record has no `tool`) and correct equal to the number of those      *)
(* samples with tool_match true.  (Spec)                                   *)
(***************************************************************************)
\* the identifier under which the expected record of a result is counted
NamedTool(r) ==
  PyNorm(dict_get(parse_json_output(r.expected), "tool", JStr("unknown")))

\* the samples whose expected text extracts to a record that names t
Naming(t) ==
  {i \in 1..Len(results) :
     /\ is_dict(parse_json_output(results[i].expected))
     /\ NamedTool(results[i]) = t}

\* the bucket of t: (0, 0) when tool_stats has no entry for it
Bucket(tool_stats, t) ==
  IF t \in DOMAIN tool_stats.stats THEN tool_stats.stats[t]
  ELSE [total |-> 0, correct |-> 0]

C13_BucketCounts ==
  report # <<>> =>
    \A t \in DOMAIN report[1].tool_stats.stats
             \cup {JStr("flyTo"), JStr("zoom"), JStr("unknown")} :
      /\ Bucket(report[1].tool_stats, t).total = Cardinality(Naming(t))
      /\ Bucket(report[1].tool_stats, t).correct
           = Cardinality({i \in Naming(t) : results[i].tool_match})

(***************************************************************************)
(* C14: print_results is order-insensitive: for every list of results and  *)
(* every permutation of it the counts and rates, the mean coordinate       *)
(* error and the per-tool (correct, total) mapping are equal.              *)
(* (SpecAggregate)                                                         *)
(***************************************************************************)
\* the rearrangements of the list q
Rearrangements(q) ==
  {[i \in 1..Len(q) |-> q[f[i]]] :
     f \in {g \in [1..Len(q) -> 1..Len(q)] :
              \A i, j \in 1..Len(q) : g[i] = g[j] => i = j}}

\* what the claim compares in a report
Aggregates(rep) ==
  [table |-> rep.table,
   per_tool |-> rep.tool_stats.stats,
   summary |-> IF rep.output_data = <<>> THEN <<>>
               ELSE <<rep.output_data[1].summary>>]

\* the report of the list q agrees with the report in the state
SameAggregates(q) ==
  /\ ~Raised(print_results(q, report[1].output_data # <<>>))
  /\ Aggregates(print_results(q, report[1].output_data # <<>>).ret)
       = Aggregates(report[1])

C14_OrderInsensitive ==
  report # <<>> => \A q \in Rearrangements(results) : SameAggregates(q)

(***************************************************************************)
(* C15: the per-tool breakdown is reported in lexicographic order of the   *)
(* tool identifiers, not in insertion order, in the per-tool table and in  *)
(* the saved per_tool mapping, and producing that order succeeds for       *)
(* every set of bucket keys.  (SpecAggregate)                              *)
(***************************************************************************)
\* the rows are in increasing order of their tool identifiers
InKeyOrder(rows) ==
  \A i \in 1..Len(rows) : \A j \in (i + 1)..Len(rows) :
    KeyLess(rows[i].tool, rows[j].tool)

C15_BreakdownSorted ==
  /\ pc = "raised" => error # "TypeError"
  /\ report # <<>> =>
       /\ InKeyOrder(report[1].tool_table)
       /\ report[1].output_data # <<>> =>
            InKeyOrder(report[1].output_data[1].per_tool)

(***************************************************************************)
(* C16: exact_match of a sample is true exactly when the expected and the  *)
(* predicted text, each stripped of leading and trailing whitespace, are   *)
(* the same text, whether or not either of them holds JSON; two texts      *)
(* holding the same record in different words do not match.  (SpecSample)  *)
(***************************************************************************)
C16_ExactMatchIsTrimmedEquality ==
  \A i \in 1..Len(results) :
    results[i].exact_match <=>
      strip(results[i].expected) = strip(results[i].predicted)

\* the same record, once bare and once inside prose: both extract to the
\* same value, the texts differ, and the sample was scored as no match
C16_Witness ==
  /\ Len(results) = 1
  /\ expected = Text(ToolDoc("zoom", TObj(<<>>)))
  /\ predicted = <<Word("Sure"), Space>> \o expected \o <<Space, Word("Done")>>
  /\ results[1].tool_match
  /\ ~results[1].exact_match

(***************************************************************************)
(* C17: the monitor renders exactly once for each line read that matches   *)
(* the iteration or the validation pattern and not at all for any other    *)
(* line: after any sequence of lines the renders made for lines are as     *)
(* many as the lines matching one of the two patterns.  (SpecProgress)     *)
(***************************************************************************)
\* the line matches the iteration or the validation pattern
MatchesReport(raw) ==
  iter_search(strip(raw)) # <<>> \/ val_search(strip(raw)) # <<>>

\* the renders made for lines: all but the one made before the first line
RendersForLines == Len(rendered) - (IF monitor = "started" THEN 0 ELSE 1)

C17_OneRenderPerReport ==
  RendersForLines
    = Cardinality({i \in 1..Len(stdout) : MatchesReport(stdout[i])})

(***************************************************************************)
(* Vocabulary of the steps of the monitor.                                 *)
(***************************************************************************)
\* the step reads a line
Reads == Len(stdout') = Len(stdout) + 1
\* the line the step reads, as the patterns see it
LineRead == strip(stdout'[Len(stdout')])
IsIteration(line) == iter_search(line) # <<>>
IsValidation(line) == val_search(line) # <<>>
IsSave(line) == save_search(line)

(***************************************************************************)
(* C18: on a line matching the iteration pattern the monitor sets          *)
(* current_iter, train_loss, tokens_per_sec and peak_mem to the values in  *)
(* the line and resets saved to false, leaving val_loss and total_iters    *)
(* unchanged.  (SpecProgress)                                              *)
(***************************************************************************)
IterationEffect ==
  LET g == iter_search(LineRead)[1] IN
    /\ current_iter' = int(g[1])
    /\ float(g[2]) = Return(train_loss')
    /\ float(g[4]) = Return(tokens_per_sec')
    /\ float(g[5]) = Return(peak_mem')
    /\ saved' = FALSE
    /\ val_loss' = val_loss
    /\ total_iters' = total_iters

C18_IterationLineEffect ==
  [][(Reads /\ IsIteration(LineRead)) => IterationEffect]_vars

(***************************************************************************)
(* C19 as stated: on a line matching the save pattern saved becomes true   *)
(* and no other tracked value changes; saved stays true until the next     *)
(* line matching the iteration pattern, which resets it to false.          *)
(* (SpecProgress)                                                          *)
(***************************************************************************)
OthersUnchanged ==
  UNCHANGED <<current_iter, train_loss, val_loss, tokens_per_sec, peak_mem,
              total_iters>>

C20_ValidationLineEffect ==
  [][(Reads /\ IsValidation(LineRead) /\ ~IsIteration(LineRead)) =>
       /\ float(val_search(LineRead)[1][1]) = Return(val_loss')
       /\ UNCHANGED <<current_iter, train_loss, tokens_per_sec, peak_mem,
                      saved>>]_vars

(***************************************************************************)
(* C21: a line that matches none of the three patterns changes no tracked  *)
(* value, causes no render and is not an error: the monitor goes on        *)
(* reading.  (SpecProgress)                                                *)
(***************************************************************************)
Unrecognized(line) ==
  ~IsIteration(line) /\ ~IsValidation(line) /\ ~IsSave(line)

C21_UnrecognizedLineIgnored ==
  [][(Reads /\ Unrecognized(LineRead)) =>
       /\ UNCHANGED <<tvars, total_iters, rendered>>
       /\ monitor' = "reading"]_vars

(***************************************************************************)
(* C22: the validation-loss suffix is in a rendered status line exactly    *)
(* when a validation report has been read: in no render before the first   *)
(* validation line and in every render from that line on, whatever value   *)
(* it reported.  (SpecProgress)                                            *)
(***************************************************************************)
\* the step renders
Renders == Len(rendered') = Len(rendered) + 1
\* a validation report is among the lines read up to and with this step
ValidationObserved ==
  \E i \in 1..Len(stdout') : IsValidation(strip(stdout'[i]))

C22_ValSuffixOnceObserved ==
  [][Renders =>
       (rendered'[Len(rendered')].status.val_indicator # <<>>
          <=> ValidationObserved)]_vars

(***************************************************************************)
(* C23: when the child exits by itself the monitor, having read the        *)
(* output to its end and waited for the exit, prints the success message   *)
(* if the child's status is 0 and the failure message otherwise, and ends  *)
(* with the child's exit status as its own.  (SpecLifecycle)               *)
(***************************************************************************)
\* the monitor has ended, and not on an interrupt
EndedUninterrupted ==
  /\ monitor \in {"exited", "raised"}
  /\ error # "KeyboardInterrupt"

C23_ExitStatusMirrorsChild ==
  (child = "exited" /\ EndedUninterrupted) =>
    /\ monitor = "exited"
    /\ indicator = IF returncode = <<0>> THEN "complete" ELSE "failed"
    /\ exit_status = returncode

(***************************************************************************)
(* C24: an interrupt arriving while the child is running, at whatever      *)
(* point of main, makes the monitor signal the child to terminate and end  *)
(* with a status other than 0.  (SpecLifecycle)                            *)
(***************************************************************************)
\* the monitor has ended on an interrupt
Interrupted ==
  \/ monitor = "interrupted"
  \/ monitor = "raised" /\ error = "KeyboardInterrupt"

C24_InterruptTerminatesChild ==
  [][(~Interrupted /\ Interrupted' /\ child \in {"running", "closed"}) =>
       /\ child' = "signalled"
       /\ exit_status' # <<>> /\ exit_status' # <<0>>]_vars

(***************************************************************************)
(* C25: in a run that ends successfully current_iter never decreases from  *)
(* one line to the next, and total_iters is the same at every render as at *)
(* the start.  (SpecProgress)                                              *)
(***************************************************************************)
\* current_iter as displayed after each line that changed it: every line
\* that assigns current_iter is rendered (lines 102-103, 118)
IterationsShown == [i \in DOMAIN rendered |-> rendered[i].status.current_iter]

TotalFixed == \A i \in DOMAIN rendered : rendered[i].status.total_iters = total_iters

C25_IterationNeverDecreases ==
  exit_status = <<0>> =>
    /\ \A i, j \in DOMAIN rendered :
         i < j => IterationsShown[i] <= IterationsShown[j]
    /\ TotalFixed

(***************************************************************************)
(* C26: with total_iters equal to 0 every bar rendered, the initial one    *)
(* and the one after each report, whatever current_iter is, has no filled  *)
(* cell and shows 0.0 percent; no division by zero ends the monitor.       *)
(* (SpecLifecycle)                                                         *)
(***************************************************************************)
C26_ZeroTotalEmptyBar ==
  total_iters = 0 =>
    /\ \A i \in DOMAIN rendered :
         /\ rendered[i].progress.filled = 0
         /\ rendered[i].progress.empty = Repeat(bar_width)
         /\ rendered[i].progress.percent = Ratio(0, 1)
    /\ error # "ZeroDivisionError"

\* a bar of 10 cells rendered for iteration 20 of 0
C26_Witness ==
  /\ total_iters = 0
  /\ bar_width = 10
  /\ Len(rendered) = 3
  /\ rendered[2].status.current_iter = 10
  /\ rendered[3].status.current_iter = 20

(***************************************************************************)
(* C28: for a total above 0 and a width of 0 or more the bar rendered has  *)
(* exactly width cells, of which floor(width * current_iter / total) are   *)
(* filled, also when current_iter exceeds the total.  (SpecLifecycle)      *)
(***************************************************************************)
C28_BarFixedWidthProportional ==
  (total_iters > 0 /\ bar_width >= 0) =>
    \A i \in DOMAIN rendered :
      LET bar == rendered[i].progress IN
        /\ bar.filled + bar.empty = bar_width
        /\ bar.filled =
             (bar_width * rendered[i].status.current_iter) \div total_iters

(***************************************************************************)
(* C27: the value parse_json_output returns is that of the first rung of   *)
(* the ladder that parses: the whole trimmed text; failing that the first  *)
(* balanced-brace candidate, in order of appearance, that parses; failing  *)
(* that the first loose candidate that parses; None when nothing parses.   *)
(* (SpecExtract)                                                           *)
(***************************************************************************)
Trimmed == strip(text)
Balanced == re_findall("nested", Trimmed)
Loose == re_findall("simple", Trimmed)
Parses(cand) == json_loads(cand).ok
WholeParses == Parses(Trimmed)
SomeParses(cands) == \E i \in DOMAIN cands : Parses(cands[i])
\* the value of the first candidate that parses
FirstValue(cands) ==
  json_loads(cands[CHOOSE i \in DOMAIN cands :
                     /\ Parses(cands[i])
                     /\ \A j \in 1..(i - 1) : ~Parses(cands[j])]).val

C27_LadderInPriorityOrder ==
  extracted # <<>> =>
    extracted[1] =
      IF WholeParses THEN json_loads(Trimmed).val
      ELSE IF SomeParses(Balanced) THEN FirstValue(Balanced)
      ELSE IF SomeParses(Loose) THEN FirstValue(Loose)
      ELSE None

\* a text that does not parse whole and has a balanced candidate, none of
\* which parses, and whose second loose candidate is the first that parses
C27_Witness ==
  /\ extracted # <<>>
  /\ ~WholeParses
  /\ Balanced # <<>>
  /\ ~SomeParses(Balanced)
  /\ Len(Loose) >= 2
  /\ ~Parses(Loose[1])
  /\ Parses(Loose[2])
  /\ extracted[1] = json_loads(Loose[2]).val
  /\ extracted[1] # EmptyDict

(***************************************************************************)
(* C29: a sample whose exact_match is true and whose expected text yields  *)
(* an extracted record has json_valid and tool_match true: a prediction    *)
(* that is the text of an extractable ground truth is never scored as a    *)
(* wrong tool.  (SpecSample)                                               *)
(***************************************************************************)
C29_ExactMatchImpliesToolMatch ==
  \A i \in 1..Len(results) :
    (results[i].exact_match /\ is_dict(parse_json_output(results[i].expected)))
      => results[i].json_valid /\ results[i].tool_match

(***************************************************************************)
(* C30: the figures of a report agree with each other: in every bucket of  *)
(* the per-tool breakdown correct <= total, the `correct` of all buckets   *)
(* add up to the tool-accuracy count, and tool-accuracy count <= valid     *)
(* count <= number of samples.  (Spec)                                     *)
(***************************************************************************)
\* the sum of `correct` over all buckets of tool_stats
RECURSIVE SumCorrect(_, _)
SumCorrect(keys, stats) ==
  IF keys = <<>> THEN 0
  ELSE stats[Head(keys)].correct + SumCorrect(Tail(keys), stats)

C30_AggregateConsistent ==
  report # <<>> =>
    LET ts == report[1].tool_stats
        table == report[1].table
    IN /\ \A t \in DOMAIN ts.stats : ts.stats[t].correct <= ts.stats[t].total
       /\ SumCorrect(ts.keys, ts.stats) = table.tool_accuracy.value
       /\ table.tool_accuracy.value <= table.json_valid.value
       /\ table.json_valid.value <= table.total
       /\ table.total = Len(results)

\* a report over two samples with valid predictions, in two buckets, one
\* sample scored as the right tool and the other as the wrong one
C30_Witness ==
  /\ report # <<>>
  /\ Len(report[1].tool_stats.keys) = 2
  /\ report[1].table.json_valid.value = 2
  /\ report[1].table.tool_accuracy.value = 1

====
